---- MODULE Spec2Model ----
(***************************************************************************)
(* EnvironmentLoop.run of acme/environment_loop.py as a state machine.     *)
(*                                                                         *)
(* The loop is sequential: pc is the position of the one thread inside     *)
(* run.  Environment, Actor, Counter, Logger and the wall clock are the    *)
(* loop's collaborators; what they return is drawn from small sets, and    *)
(* every Environment and Actor call may raise.                             *)
(*                                                                         *)
(* An Optional value is a set with at most one element: None is {} and     *)
(* the value x is {x}.                                                     *)
(***************************************************************************)
EXTENDS Integers, Sequences, FiniteSets, TLC

VARIABLES
  pc,              \* position of the thread in run
  error,           \* the exception that left run, "" while there is none
  num_episodes,    \* argument of run (Optional[int])
  num_steps,       \* argument of run (Optional[int])
  episode_count,   \* local of run
  step_count,      \* local of run
  start_time,      \* local of run
  episode_steps,   \* local of run
  episode_return,  \* local of run
  timestep,        \* local of run: the dm_env.TimeStep in hand
  action,          \* local of run: what select_action returned
  counts,          \* local of run: what Counter.increment returned
  result,          \* local of run: the record handed to the Logger
  environment,     \* self._environment: the Environment the loop was given
  actor,           \* self._actor: the Actor the loop was given
  counter,         \* self._counter: its totals mapping
  clock,           \* the wall clock read by time.time()
  log,             \* self._logger: the records written, in order
  calls,           \* number of calls made to each collaborator operation
  counter0,        \* the Counter's totals when the loop was constructed
  lasts,           \* number of LAST timesteps Environment.step has returned
  last_call,       \* the latest call made to the Environment or the Actor
  given,           \* what the Environment has returned since its last reset
  earlier,         \* the calls of run that have ended, and the calls they made
  peers            \* what the other loops sharing the Counter have counted

vars == <<pc, error, num_episodes, num_steps, episode_count, step_count,
          start_time, episode_steps, episode_return, timestep, action, counts,
          result, environment, actor, counter, clock, log, calls, counter0,
          lasts, last_call, given, earlier, peers>>

args   == <<num_episodes, num_steps>>
locals == <<episode_count, step_count, start_time, episode_steps,
            episode_return, timestep, action, counts, result>>

\* What the collaborators have seen of the loop.
seen   == <<last_call, given>>

\* What no step of a single call of run changes: the collaborators the loop
\* was built with, and the record of what happened outside this call.
fixed  == <<environment, actor, counter0, earlier, peers>>

----
\* Bounds of the model.

\* Largest budget (num_episodes or num_steps) run is called with.
MaxBudget == 3

\* Every episode is finite: Environment.step returns LAST at the latest on
\* step MaxEpisodeLen of an episode.
MaxEpisodeLen == 2

\* A run with no budget never ends; the model follows its first
\* MaxUnbounded episodes.
MaxUnbounded == 2

\* An Environment that never returns LAST is followed for MaxEndlessSteps
\* steps of its one episode.
MaxEndlessSteps == 6

\* Largest number of calls of run on one loop.
MaxRuns == 2

\* Largest number of episodes the other loops sharing the Counter count.
MaxPeerEpisodes == 2

----
\* Values.

None == {}
Some(x) == {x}

\* Optional[int] arguments of run.
Budgets == {None} \cup {Some(n) : n \in 0..MaxBudget}

\* Rewards an Environment.step timestep may carry; None is the absent reward.
Rewards == {None, Some(0), Some(1)}

\* time.time() - start_time, in clock ticks: the clock has advanced by one
\* tick between the two readings, or (its resolution) not at all.
Elapsed == {0, 1}

NoTimestep == [step_type |-> "NONE", reward |-> None, observation |-> "none"]

NoAction == "none"

\* The timestep of step type st carrying reward r and observation o.
TimeStep(st, r, o) == [step_type |-> st, reward |-> r, observation |-> o]

EmptyMap == [k \in {} |-> 0]

\* Totals a Counter handed to the constructor may already hold; a Counter the
\* loop creates itself (counter or counting.Counter()) holds none.
InitialCounters ==
  { EmptyMap,
    [k \in {"episodes", "steps", "learner_steps"} |->
        CASE k = "episodes" -> 1 [] k = "steps" -> 2 [] OTHER -> 7],
    [k \in {"episode_length"} |-> 7],
    [k \in {"episode_return", "steps_per_second"} |-> 7] }

Operations == {"reset", "step", "observe_first", "select_action", "observe",
               "update", "increment", "write"}

\* An Environment whose episodes are finite and otherwise arbitrary, with
\* the observations it may show.
FreeEnvironment(obs) ==
  [kind |-> "free", observations |-> obs, script |-> <<>>]

\* An Environment that never ends an episode.
EndlessEnvironment ==
  [kind |-> "endless", observations |-> {"o1"}, script |-> <<>>]

\* The episodes of n steps: MID timesteps and then a LAST one.
ScriptsOfLen(n) ==
  { s \in [1..n -> [step_type : {"MID", "LAST"},
                    reward : {Some(0), Some(1)},
                    observation : {"o1"}]] :
      \A i \in 1..n : s[i].step_type = IF i = n THEN "LAST" ELSE "MID" }

\* The deterministic Environments: every episode is the same script.
ScriptedEnvironments ==
  { [kind |-> "scripted", observations |-> {"o1"}, script |-> s] :
      s \in UNION { ScriptsOfLen(n) : n \in 1..MaxEpisodeLen } }

\* An Actor, with the actions its policy may select.
Actor(acts) == [actions |-> acts]

\* One call of the Environment or the Actor, with the observation, the
\* action and the timestep passed to it or returned by it.
Event(op, obs, a, ts) ==
  [op |-> op, observation |-> obs, action |-> a, timestep |-> ts]

NoCallsYet == [op \in Operations |-> 0]

\* No call has been made to the Environment or the Actor yet.
NoCall == Event("none", "none", NoAction, NoTimestep)

\* The Environment has returned nothing since it was built.
NothingGiven == [steps |-> 0, rewards |-> 0, timestep |-> NoTimestep]

----
\* Pure parts of the code.

\* dict lookup with a default of 0 (a total the Counter does not hold yet).
Get(d, k) == IF k \in DOMAIN d THEN d[k] ELSE 0

\* Counter.increment(**deltas): adds each delta to its total and returns the
\* full totals mapping.
increment(totals, deltas) ==
  [k \in DOMAIN totals \cup DOMAIN deltas |-> Get(totals, k) + Get(deltas, k)]

\* Line 120 with the two deltas exchanged.
Deltas_swapped(steps) ==
  [k \in {"episodes", "steps"} |-> IF k = "episodes" THEN steps ELSE 1]

\* Line 120 with every episode counted as one step.
Deltas_unit(steps) ==
  [k \in {"episodes", "steps"} |-> 1]

\* The keyword arguments of the call on line 120.
Deltas(steps) ==
  [k \in {"episodes", "steps"} |-> IF k = "episodes" THEN 1 ELSE steps]

\* dict.update: the keys of other overwrite those of d.
update(d, other) ==
  [k \in DOMAIN d \cup DOMAIN other |->
      IF k \in DOMAIN other THEN other[k] ELSE d[k]]

\* a / b for b # 0.  Elapsed times are whole ticks of magnitude 1, so the
\* quotient is the integer q with q * b = a.
TrueDiv(a, b) ==
  LET m == IF a < 0 THEN -a ELSE a
  IN  CHOOSE q \in (-m)..m : q * b = a

\* timestep.last() with every timestep but the FIRST one ending the episode.
last_notFirst(ts) == ts.step_type # "FIRST"

\* timestep.last()
last(ts) == ts.step_type = "LAST"

\* Line 87 left out: no argument is rejected.
InvalidArguments_dropped(ne, ns) == FALSE

\* Line 87: the argument check of run.
InvalidArguments(ne, ns) == ~(ne = None \/ ns = None)

\* Lines 90-92 with the episode test off by one.
should_terminate_early(ec, sc) ==
  \/ num_episodes # None /\ \E n \in num_episodes : ec + 1 >= n
  \/ num_steps # None /\ \E n \in num_steps : sc >= n

\* Lines 90-92 with an absent budget read as zero (num_episodes or 0).
should_terminate_default(ec, sc) ==
  \/ num_episodes = None
  \/ \E n \in num_episodes : ec >= n
  \/ num_steps # None /\ \E n \in num_steps : sc >= n

\* Lines 90-92 with > in place of >=.
should_terminate_strict(ec, sc) ==
  \/ num_episodes # None /\ \E n \in num_episodes : ec > n
  \/ num_steps # None /\ \E n \in num_steps : sc > n

\* Lines 90-92.
should_terminate(ec, sc) ==
  \/ num_episodes # None /\ \E n \in num_episodes : ec >= n
  \/ num_steps # None /\ \E n \in num_steps : sc >= n

\* Lines 124-129 with the merge the other way round: the computed fields
\* overwrite the Counter's totals.
Result_reversed(steps, ret, sps, cnts) ==
  update(cnts,
         [k \in {"episode_length", "episode_return", "steps_per_second"} |->
            CASE k = "episode_length" -> steps
              [] k = "episode_return" -> ret
              [] OTHER -> sps])

\* Lines 124-129: the record built from the episode's statistics, with the
\* Counter's totals merged in.
Result(steps, ret, sps, cnts) ==
  update([k \in {"episode_length", "episode_return", "steps_per_second"} |->
            CASE k = "episode_length" -> steps
              [] k = "episode_return" -> ret
              [] OTHER -> sps],
         cnts)

\* run was called with neither budget.
Unbounded == num_episodes = None /\ num_steps = None

Called(op) == [calls EXCEPT ![op] = @ + 1]

\* What Environment.step may return on step n of an episode.
EnvironmentStep(n, st, r, o) ==
  CASE environment.kind = "free" -> (n >= MaxEpisodeLen => st = "LAST")
    [] environment.kind = "endless" -> st = "MID"
    [] OTHER -> TimeStep(st, r, o) = environment.script[n]

\* A reward as a number, an absent one as zero.
RewardOrZero(r) == IF r = None THEN 0 ELSE CHOOSE x \in r : TRUE

\* An exception leaves run: nothing catches it.
Raise(e) ==
  /\ pc' = "raised"
  /\ error' = e

----
\* The state after EnvironmentLoop.__init__, for a loop built with one of
\* the Environments envs, one of the Actors actors and a Counter holding one
\* of the totals counters.

InitWith(envs, actors, counters) ==
  /\ pc = "idle"
  /\ error = ""
  /\ num_episodes = None
  /\ num_steps = None
  /\ episode_count = 0
  /\ step_count = 0
  /\ start_time = 0
  /\ episode_steps = 0
  /\ episode_return = 0
  /\ timestep = NoTimestep
  /\ action = NoAction
  /\ counts = EmptyMap
  /\ result = EmptyMap
  /\ environment \in envs
  /\ actor \in actors
  /\ counter \in counters
  /\ counter0 = counter
  /\ clock = 0
  /\ log = <<>>
  /\ calls = NoCallsYet
  /\ lasts = 0
  /\ last_call = NoCall
  /\ given = NothingGiven
  /\ earlier = [runs |-> 0, calls |-> NoCallsYet]
  /\ peers = [episodes |-> 0, steps |-> 0]

Init == InitWith({FreeEnvironment({"o1"})}, {Actor({"a1"})}, InitialCounters)

----
\* The steps of run.

\* Lines 87-94 without line 94: the counts of the call before are kept.
RunCall_keep(ne, ns) ==
  /\ pc = "idle"
  /\ num_episodes' = ne
  /\ num_steps' = ns
  /\ IF InvalidArguments(ne, ns)
       THEN Raise("ValueError")
       ELSE pc' = "while_run" /\ error' = error
  /\ UNCHANGED <<locals, counter, clock, log, calls, lasts, seen, fixed>>

\* Lines 87-94: run(num_episodes, num_steps) is called.
RunCall(ne, ns) ==
  /\ pc = "idle"
  /\ num_episodes' = ne
  /\ num_steps' = ns
  /\ IF InvalidArguments(ne, ns)
       THEN /\ Raise("ValueError")
            /\ UNCHANGED <<episode_count, step_count>>
       ELSE /\ pc' = "while_run"
            /\ error' = error
            /\ episode_count' = 0
            /\ step_count' = 0
  /\ UNCHANGED <<start_time, episode_steps, episode_return, timestep, action,
                 counts, result, counter, clock, log, calls, lasts, seen,
                 fixed>>

\* Line 95, the predicate holds: run returns.
Return ==
  /\ pc = "while_run"
  /\ should_terminate(episode_count, step_count)
  /\ pc' = "returned"
  /\ UNCHANGED <<error, args, locals, counter, clock, log, calls, lasts,
                 seen, fixed>>

\* Lines 95-99 without lines 98-99: the accumulators are not reset.
StartEpisode_carry ==
  /\ pc = "while_run"
  /\ ~should_terminate(episode_count, step_count)
  /\ Unbounded => episode_count < MaxUnbounded
  /\ start_time' = clock
  /\ pc' = "reset"
  /\ UNCHANGED seen
  /\ UNCHANGED <<error, args, episode_count, step_count, episode_steps,
                 episode_return, timestep, action, counts, result, counter,
                 clock, log, calls, lasts, fixed>>

\* Lines 95-99, the predicate does not hold: an episode starts.
StartEpisode ==
  /\ pc = "while_run"
  /\ ~should_terminate(episode_count, step_count)
  /\ Unbounded => episode_count < MaxUnbounded
  /\ start_time' = clock
  /\ episode_steps' = 0
  /\ episode_return' = 0
  /\ pc' = "reset"
  /\ UNCHANGED seen
  /\ UNCHANGED <<error, args, episode_count, step_count, timestep, action,
                 counts, result, counter, clock, log, calls, lasts, fixed>>

\* Line 100.  Environment.reset returns a FIRST timestep, which carries no
\* reward, so every episode has at least one step.
EnvReset ==
  /\ pc = "reset"
  /\ calls' = Called("reset")
  /\ \/ \E o \in environment.observations :
          /\ timestep' = TimeStep("FIRST", None, o)
          /\ last_call' = Event("reset", "none", NoAction, timestep')
          /\ given' = [steps |-> 0, rewards |-> 0, timestep |-> timestep']
          /\ pc' = "observe_first"
          /\ error' = error
     \/ /\ Raise("reset")
        /\ timestep' = timestep
        /\ last_call' = Event("reset", "none", NoAction, NoTimestep)
        /\ given' = given
  /\ UNCHANGED <<args, episode_count, step_count, start_time, episode_steps,
                 episode_return, action, counts, result, counter, clock, log,
                 lasts, fixed>>

\* Line 103.
ObserveFirst ==
  /\ pc = "observe_first"
  /\ calls' = Called("observe_first")
  /\ last_call' = Event("observe_first", "none", NoAction, timestep)
  /\ given' = given
  /\ \/ pc' = "while_episode" /\ error' = error
     \/ Raise("observe_first")
  /\ UNCHANGED <<args, locals, counter, clock, log, lasts, fixed>>

\* Line 106 with the budget also tested inside the episode.
WhileEpisode_budget ==
  /\ pc = "while_episode"
  /\ pc' = IF \/ last(timestep)
              \/ should_terminate(episode_count, step_count + episode_steps)
             THEN "increment" ELSE "select_action"
  /\ UNCHANGED <<error, args, locals, counter, clock, log, calls, lasts,
                 seen, fixed>>

\* Line 106 with the loop body run at most once per episode.
WhileEpisode_once ==
  /\ pc = "while_episode"
  /\ pc' = IF last(timestep) \/ episode_steps >= 1
             THEN "increment" ELSE "select_action"
  /\ UNCHANGED <<error, args, locals, counter, clock, log, calls, lasts,
                 seen, fixed>>

\* Line 106.
WhileEpisode ==
  /\ pc = "while_episode"
  /\ pc' = IF last(timestep) THEN "increment" ELSE "select_action"
  /\ UNCHANGED <<error, args, locals, counter, clock, log, calls, lasts,
                 seen, fixed>>

\* Lines 108-109 folded into step(select_action(...)): the selected action
\* is not kept in action.
SelectAction_discard ==
  /\ pc = "select_action"
  /\ calls' = Called("select_action")
  /\ action' = action
  /\ \/ \E a \in actor.actions :
          /\ last_call' = Event("select_action", timestep.observation, a,
                                NoTimestep)
          /\ pc' = "step"
          /\ error' = error
     \/ /\ Raise("select_action")
        /\ last_call' = Event("select_action", timestep.observation,
                              NoAction, NoTimestep)
  /\ UNCHANGED <<args, episode_count, step_count, start_time, episode_steps,
                 episode_return, timestep, counts, result, counter, clock,
                 log, lasts, given, fixed>>

\* Line 108.
SelectAction ==
  /\ pc = "select_action"
  /\ calls' = Called("select_action")
  /\ \/ \E a \in actor.actions :
          /\ action' = a
          /\ last_call' = Event("select_action", timestep.observation, a,
                                NoTimestep)
          /\ pc' = "step"
          /\ error' = error
     \/ /\ Raise("select_action")
        /\ action' = action
        /\ last_call' = Event("select_action", timestep.observation,
                              NoAction, NoTimestep)
  /\ UNCHANGED <<args, episode_count, step_count, start_time, episode_steps,
                 episode_return, timestep, counts, result, counter, clock,
                 log, lasts, given, fixed>>

\* Line 109.  What the Environment returns depends on the steps it has taken
\* since its reset; a free Environment ends every episode within
\* MaxEpisodeLen steps.
EnvStep ==
  /\ pc = "step"
  /\ environment.kind = "endless" => given.steps < MaxEndlessSteps
  /\ calls' = Called("step")
  /\ \/ \E st \in {"MID", "LAST"}, r \in Rewards,
           o \in environment.observations :
          /\ EnvironmentStep(given.steps + 1, st, r, o)
          /\ timestep' = TimeStep(st, r, o)
          /\ lasts' = IF st = "LAST" THEN lasts + 1 ELSE lasts
          /\ last_call' = Event("step", "none", action, timestep')
          /\ given' = [steps |-> given.steps + 1,
                       rewards |-> given.rewards + RewardOrZero(r),
                       timestep |-> timestep']
          /\ pc' = "observe"
          /\ error' = error
     \/ /\ Raise("step")
        /\ UNCHANGED <<timestep, lasts>>
        /\ last_call' = Event("step", "none", action, NoTimestep)
        /\ given' = [given EXCEPT !.steps = @ + 1]
  /\ UNCHANGED <<args, episode_count, step_count, start_time, episode_steps,
                 episode_return, action, counts, result, counter, clock, log,
                 fixed>>

\* Line 112.
Observe ==
  /\ pc = "observe"
  /\ calls' = Called("observe")
  /\ last_call' = Event("observe", "none", action, timestep)
  /\ given' = given
  /\ \/ pc' = "update" /\ error' = error
     \/ Raise("observe")
  /\ UNCHANGED <<args, locals, counter, clock, log, lasts, fixed>>

\* Line 113.
Update ==
  /\ pc = "update"
  /\ calls' = Called("update")
  /\ last_call' = Event("update", "none", NoAction, NoTimestep)
  /\ given' = given
  /\ \/ pc' = "bookkeeping" /\ error' = error
     \/ Raise("update")
  /\ UNCHANGED <<args, locals, counter, clock, log, lasts, fixed>>

\* Lines 116-117 with the record written after every step instead of after
\* every episode.
BookKeeping_logging ==
  /\ pc = "bookkeeping"
  /\ episode_steps' = episode_steps + 1
  /\ IF timestep.reward = None
       THEN /\ Raise("TypeError")
            /\ UNCHANGED <<episode_return, log>>
       ELSE /\ \E r \in timestep.reward : episode_return' = episode_return + r
            /\ log' = Append(log, Result(episode_steps', episode_return', 0,
                                         counter))
            /\ pc' = "while_episode"
            /\ error' = error
  /\ UNCHANGED <<args, episode_count, step_count, start_time, timestep,
                 action, counts, result, counter, clock, calls, lasts, seen,
                 fixed>>

\* Lines 116-117 with an absent reward added as zero (reward or 0).
BookKeeping_lenient ==
  /\ pc = "bookkeeping"
  /\ episode_steps' = episode_steps + 1
  /\ episode_return' = episode_return + RewardOrZero(timestep.reward)
  /\ pc' = "while_episode"
  /\ UNCHANGED <<error, args, episode_count, step_count, start_time, timestep,
                 action, counts, result, counter, clock, log, calls, lasts,
                 seen, fixed>>

\* Lines 116-117 with the reward of the LAST timestep left out.
BookKeeping_skipLast ==
  /\ pc = "bookkeeping"
  /\ episode_steps' = episode_steps + 1
  /\ IF timestep.reward = None
       THEN /\ Raise("TypeError")
            /\ episode_return' = episode_return
       ELSE /\ \E r \in timestep.reward :
               episode_return' = IF last(timestep) THEN episode_return
                                 ELSE episode_return + r
            /\ pc' = "while_episode"
            /\ error' = error
  /\ UNCHANGED <<args, episode_count, step_count, start_time, timestep,
                 action, counts, result, counter, clock, log, calls, lasts,
                 seen, fixed>>

\* Lines 116-117.  Adding None to a number raises TypeError.
BookKeeping ==
  /\ pc = "bookkeeping"
  /\ episode_steps' = episode_steps + 1
  /\ IF timestep.reward = None
       THEN /\ Raise("TypeError")
            /\ episode_return' = episode_return
       ELSE /\ \E r \in timestep.reward : episode_return' = episode_return + r
            /\ pc' = "while_episode"
            /\ error' = error
  /\ UNCHANGED <<args, episode_count, step_count, start_time, timestep,
                 action, counts, result, counter, clock, log, calls, lasts,
                 seen, fixed>>

\* Line 120 done by the loop as a read, an addition and a write back: the
\* deltas are added to the totals the loop received last.
RecordCounts_lostUpdate ==
  /\ pc = "increment"
  /\ calls' = Called("increment")
  /\ counter' = increment(counts, Deltas(episode_steps))
  /\ counts' = counter'
  /\ pc' = "collect"
  /\ UNCHANGED <<error, args, episode_count, step_count, start_time,
                 episode_steps, episode_return, timestep, action, result,
                 clock, log, lasts, seen, fixed>>

\* Line 120.
RecordCounts ==
  /\ pc = "increment"
  /\ calls' = Called("increment")
  /\ counter' = increment(counter, Deltas(episode_steps))
  /\ counts' = counter'
  /\ pc' = "collect"
  /\ UNCHANGED <<error, args, episode_count, step_count, start_time,
                 episode_steps, episode_return, timestep, action, result,
                 clock, log, lasts, seen, fixed>>

\* Lines 123-131.  time.time() is read again; dividing by an elapsed time of
\* zero raises ZeroDivisionError.
CollectResults ==
  /\ pc = "collect"
  /\ \E d \in Elapsed :
       /\ clock' = start_time + d
       /\ IF clock' - start_time = 0
            THEN /\ Raise("ZeroDivisionError")
                 /\ UNCHANGED <<result, episode_count, step_count>>
            ELSE /\ result' = Result(episode_steps, episode_return,
                                     TrueDiv(episode_steps, clock' - start_time),
                                     counts)
                 /\ episode_count' = episode_count + 1
                 /\ step_count' = step_count + episode_steps
                 /\ pc' = "write"
                 /\ error' = error
  /\ UNCHANGED <<args, start_time, episode_steps, episode_return, timestep,
                 action, counts, counter, log, calls, lasts, seen, fixed>>

\* Line 134.
LogWrite ==
  /\ pc = "write"
  /\ calls' = Called("write")
  /\ log' = Append(log, result)
  /\ pc' = "while_run"
  /\ UNCHANGED <<error, args, locals, counter, clock, lasts, seen, fixed>>

Next ==
  \/ \E ne \in Budgets, ns \in Budgets : RunCall(ne, ns)
  \/ Return
  \/ StartEpisode
  \/ EnvReset
  \/ ObserveFirst
  \/ WhileEpisode
  \/ SelectAction
  \/ EnvStep
  \/ Observe
  \/ Update
  \/ BookKeeping
  \/ RecordCounts
  \/ CollectResults
  \/ LogWrite

Spec == Init /\ [][Next]_vars

\* The steps of a call of run once it has been entered.
Steps ==
  \/ Return
  \/ StartEpisode
  \/ EnvReset
  \/ ObserveFirst
  \/ WhileEpisode
  \/ SelectAction
  \/ EnvStep
  \/ Observe
  \/ Update
  \/ BookKeeping
  \/ RecordCounts
  \/ CollectResults
  \/ LogWrite

\* A loop whose Environment shows two observations and whose Actor chooses
\* between two actions, run for one or two episodes.
OrderInit ==
  InitWith({FreeEnvironment({"o1", "o2"})}, {Actor({"a1", "a2"})}, {EmptyMap})

OrderNext ==
  \/ \E n \in {1, 2} : RunCall(Some(n), None)
  \/ Steps

OrderSpec == OrderInit /\ [][OrderNext]_vars

\* run occupies its thread until it returns or raises: the thread keeps
\* taking steps.
FairSpec == Spec /\ WF_vars(Next)

\* run is called again on the same loop after it has returned.
RunAgain ==
  /\ pc = "returned"
  /\ earlier.runs + 1 < MaxRuns
  /\ pc' = "idle"
  /\ earlier' = [runs |-> earlier.runs + 1, calls |-> calls]
  /\ UNCHANGED <<error, args, locals, environment, actor, counter, clock, log,
                 calls, counter0, lasts, seen, peers>>

\* A loop whose Environment is deterministic or never ends an episode, on
\* which run is called up to MaxRuns times.
RerunInit ==
  InitWith(ScriptedEnvironments \cup {EndlessEnvironment}, {Actor({"a1"})},
           InitialCounters)

RerunNext ==
  \/ \E n \in 0..2 : RunCall(Some(n), None)
  \/ RunCall(None, Some(5))
  \/ Steps
  \/ RunAgain

RerunSpec == RerunInit /\ [][RerunNext]_vars

\* Another loop sharing the Counter finishes an episode of n steps: its
\* line 120 is one atomic Counter.increment.
PeerIncrement ==
  /\ peers.episodes < MaxPeerEpisodes
  /\ \E n \in 1..MaxEpisodeLen :
       /\ counter' = increment(counter, Deltas(n))
       /\ peers' = [episodes |-> peers.episodes + 1,
                    steps |-> peers.steps + n]
  /\ UNCHANGED <<pc, error, args, locals, environment, actor, clock, log,
                 calls, counter0, lasts, seen, earlier>>

\* A loop that shares its Counter with other loops running at the same
\* time.
SharedInit ==
  InitWith({FreeEnvironment({"o1"})}, {Actor({"a1"})},
           {EmptyMap, increment(EmptyMap, Deltas(2))})

SharedNext ==
  \/ \E n \in {1, 2} : RunCall(Some(n), None)
  \/ RunCall(None, Some(2))
  \/ Steps
  \/ PeerIncrement

SharedSpec == SharedInit /\ [][SharedNext]_vars

----
\* Properties of run.

Finished == pc \in {"returned", "raised"}

BothGiven == num_episodes # None /\ num_steps # None

\* run has been called with exactly one budget.
ExactlyOne == (num_episodes = None) # (num_steps = None)

NoCalls == \A op \in Operations : calls[op] = 0

\* C1: a call of run with both num_episodes and num_steps given fails with
\* ValueError, and at that moment no call has been made to the Environment,
\* the Actor, the Counter or the Logger, whose states are unchanged.
C1_BothGivenRejected ==
  BothGiven =>
    /\ pc = "raised"
    /\ error = "ValueError"
    /\ NoCalls
    /\ counter = counter0
    /\ log = <<>>
    /\ timestep = NoTimestep
    /\ lasts = 0

C1_Witness == BothGiven /\ pc = "raised" /\ error = "ValueError"


\* Some episode and step counts satisfy the termination predicate of the
\* call.
CanTerminate ==
  \E ec \in 0..MaxBudget, sc \in 0..MaxBudget : should_terminate(ec, sc)

\* run returned having met the budget it was given.
BudgetMet ==
  /\ \A n \in num_episodes : episode_count >= n
  /\ \A n \in num_steps : step_count >= n

\* C2 as stated: every call of run with at most one budget given, all of
\* whose episodes are finite, terminates, and on return the budget is met.
\* A loop that terminates has a predicate that holds at some counts, so the
\* claim entails CanTerminate for every such call.
C2_AtMostOneTerminates ==
  /\ [](pc # "idle" /\ ~BothGiven => CanTerminate)
  /\ [](pc = "returned" => BudgetMet)
  /\ (pc # "idle" /\ ~BothGiven) ~> Finished

\* C2, amended: every call of run with exactly one budget given, all of
\* whose episodes are finite, terminates: it returns or a failure leaves it.
\* On return the completed episode count is >= num_episodes if that was
\* given, and the completed step count >= num_steps if that was given.
C2_ExactlyOneTerminates ==
  /\ [](ExactlyOne => CanTerminate)
  /\ [](pc = "returned" => BudgetMet)
  /\ ExactlyOne ~> Finished

C2_Witness ==
  /\ pc = "returned"
  /\ ExactlyOne
  /\ episode_count >= 2
  /\ step_count >= 3

\* C3: when run(num_steps=N) returns, the steps before the last episode
\* were fewer than N and the overshoot is smaller than the last episode's
\* length; the episode in hand when the counts are taken, and when run
\* returns, ended with a LAST timestep: the budget never cuts an episode.
C3_OvershootWithinLastEpisode ==
  /\ (pc = "returned" /\ num_steps # None) =>
       \A n \in num_steps :
         IF episode_count = 0
           THEN step_count = 0 /\ n <= 0
           ELSE /\ step_count - episode_steps < n
                /\ step_count - n < episode_steps
                /\ lasts = episode_count
  /\ pc \in {"increment", "collect", "write"} => last(timestep)
  /\ (pc \in {"while_run", "returned"} /\ episode_count > 0) => last(timestep)

C3_Witness ==
  /\ pc = "returned"
  /\ \E n \in num_steps : step_count > n /\ step_count - episode_steps > 0

\* C4: a call of run with neither budget never returns: whenever it
\* evaluates the termination predicate it goes on to start another episode.
C4_UnboundedNeverReturns ==
  /\ []((pc # "idle" /\ Unbounded) => pc # "returned")
  /\ [][(Unbounded /\ pc = "while_run") => pc' = "reset"]_vars

C4_Witness == Unbounded /\ pc = "reset" /\ episode_count >= 1

\* C5: the loop changes the Counter only by the call on line 120, made once
\* per completed episode after its LAST timestep, with episodes=1 and
\* steps=the episode's step count; every other total is left as it was.
C5_CounterOncePerEpisode ==
  /\ [][counter' # counter =>
          /\ pc = "increment"
          /\ last(timestep)
          /\ calls'["increment"] = calls["increment"] + 1
          /\ Get(counter', "episodes") = Get(counter, "episodes") + 1
          /\ Get(counter', "steps") = Get(counter, "steps") + episode_steps
          /\ \A k \in DOMAIN counter \ {"episodes", "steps"} :
               counter'[k] = counter[k]]_vars
  /\ [](lasts - calls["increment"] \in {0, 1})
  /\ [](pc \in {"collect", "write", "while_run", "returned"} =>
          /\ calls["increment"] = lasts
          /\ Get(counter, "steps") - Get(counter0, "steps") = calls["step"])
  /\ [](Get(counter, "episodes") - Get(counter0, "episodes")
          = calls["increment"])

C5_Witness ==
  /\ pc = "collect"
  /\ calls["increment"] = 2
  /\ episode_steps = 2
  /\ Get(counter, "steps") - Get(counter0, "steps") = 3


\* The Environment of the scenario of C6 and its Actor: every step so far
\* returned LAST with reward 1, the Counter was fresh, and no collaborator
\* failed.
AlwaysLastReward1 ==
  /\ counter0 = EmptyMap
  /\ calls["step"] = lasts
  /\ error \in {"", "ZeroDivisionError"}
  /\ calls["step"] > 0 => episode_steps = 1 /\ episode_return = 1

\* C6: the Logger receives one record per completed episode, in order, the
\* k-th carrying the Counter totals as they are after the k-th increment; in
\* particular, with a fresh Counter and an Environment that returns LAST
\* with reward 1 on every first step, run(num_episodes=3) writes exactly 3
\* records with episode_length=1, episode_return=1, episodes=k and steps=k.
C6_OneRecordPerEpisode ==
  /\ \A k \in 1..Len(log) :
       log[k]["episodes"] = Get(counter0, "episodes") + k
  /\ (Finished /\ num_episodes = Some(3) /\ num_steps = None
        /\ AlwaysLastReward1) =>
       /\ Len(log) = 3
       /\ \A k \in 1..Len(log) :
            /\ log[k]["episode_length"] = 1
            /\ log[k]["episode_return"] = 1
            /\ log[k]["episodes"] = k
            /\ log[k]["steps"] = k

\* C7: no episode is partially logged: when a failure leaves run, the
\* episode in progress has no record and the Counter's totals do not include
\* it, so the Counter has counted exactly the episodes that were logged; and
\* once the failure has left run no further collaborator call is made.
C7_NoPartialEpisode ==
  (pc = "raised" /\ error # "ValueError") =>
    /\ Get(counter, "episodes") - Get(counter0, "episodes") = Len(log)
    /\ calls["increment"] = calls["write"]
    /\ calls["write"] = Len(log)
    /\ ~ENABLED Next

\* C8 as stated: when select_action raises on its second call during
\* run(num_episodes=2), the Logger has received no record.
C8_SecondSelectNoRecord ==
  (pc = "raised" /\ error = "select_action" /\ calls["select_action"] = 2
     /\ num_episodes = Some(2) /\ num_steps = None) =>
    Len(log) = 0

\* C8, amended: when select_action raises on its second call during
\* run(num_episodes=2), the failure leaves run; the Logger has received no
\* record if that call falls in the first episode (whose first step did not
\* return LAST), and exactly the first episode's record if the first episode
\* ended on its first step.
C8_SecondSelectRecords ==
  (pc = "raised" /\ error = "select_action" /\ calls["select_action"] = 2
     /\ num_episodes = Some(2) /\ num_steps = None) =>
    /\ ~ENABLED Next
    /\ calls["reset"] \in {1, 2}
    /\ calls["reset"] = 1 => Len(log) = 0 /\ calls["write"] = 0
    /\ calls["reset"] = 2 =>
         /\ Len(log) = 1
         /\ calls["write"] = 1
         /\ counter0 = EmptyMap => log[1]["episode_length"] = 1

C8_Witness ==
  /\ pc = "raised"
  /\ error = "select_action"
  /\ calls["select_action"] = 2
  /\ num_episodes = Some(2)
  /\ calls["reset"] = 1
  /\ calls["step"] = 1

\* C9: computing steps_per_second never raises and gives a non-negative
\* number, whatever the episode length and the elapsed time, an elapsed time
\* of zero or less included; the episode is then counted and logged.
C9_StepsPerSecondTotal ==
  /\ error # "ZeroDivisionError"
  /\ (pc = "write" /\ "steps_per_second" \notin DOMAIN counts) =>
       result["steps_per_second"] >= 0

\* C10: in the record passed to Logger.write the Counter's totals win every
\* key collision; every computed field whose key the Counter does not hold,
\* and every Counter key, is in the record unchanged, and nothing else is.
C10_CounterTakesPrecedence ==
  (pc \in {"while_run", "returned"} /\ Len(log) > 0) =>
    LET record == log[Len(log)]
    IN  /\ DOMAIN record = DOMAIN counts
              \cup {"episode_length", "episode_return", "steps_per_second"}
        /\ \A k \in DOMAIN counts : record[k] = counts[k]
        /\ "episode_length" \notin DOMAIN counts =>
             record["episode_length"] = episode_steps
        /\ "episode_return" \notin DOMAIN counts =>
             record["episode_return"] = episode_return
        /\ "steps_per_second" \notin DOMAIN counts =>
             record["steps_per_second"] * (clock - start_time) = episode_steps

C10_Witness ==
  /\ pc = "while_run"
  /\ Len(log) = 2
  /\ "episode_length" \in DOMAIN counts
  /\ log[2]["episode_length"] = 7
  /\ log[2]["episode_return"] = episode_return
  /\ episode_steps = 2

----
\* Properties of the run state and the Counter.

\* The loop was built with its own fresh Counter.
FreshCounter == counter0 = EmptyMap

\* The thread is between Environment.reset and the end of the inner loop.
InEpisode ==
  pc \in {"observe_first", "while_episode", "select_action", "step",
          "observe", "update", "bookkeeping", "increment"}

\* C19: in a failure-free call of run on a loop with a fresh Counter, at
\* every evaluation of the termination predicate the Counter's episodes
\* total, episode_count, the number of Logger.write calls and the number of
\* Environment.reset calls are equal, and the Counter's steps total,
\* step_count and the number of Environment.step calls are equal; inside an
\* episode the writes and the increments are one behind the resets.
C19_TotalsEqualRunState ==
  FreshCounter =>
    /\ pc = "while_run" =>
         /\ Get(counter, "episodes") = episode_count
         /\ calls["write"] = episode_count
         /\ Len(log) = episode_count
         /\ calls["reset"] = episode_count
         /\ Get(counter, "steps") = step_count
         /\ calls["step"] = step_count
    /\ InEpisode =>
         /\ calls["write"] = calls["reset"] - 1
         /\ calls["increment"] = calls["reset"] - 1

C19_Witness ==
  /\ FreshCounter
  /\ pc = "while_run"
  /\ episode_count = 2
  /\ step_count = 3

\* run was called with a budget of zero.
ZeroBudget == num_episodes = Some(0) \/ num_steps = Some(0)

\* C20: when run(num_episodes=n) returns there have been exactly n
\* Environment.reset calls, n Counter.increment calls and n Logger.write
\* calls; run called with a budget of zero finds its predicate true at the
\* first evaluation and returns with no call made to the Environment, the
\* Actor, the Counter or the Logger.
C20_ExactlyNEpisodes ==
  /\ pc = "returned" =>
       \A n \in num_episodes :
         /\ episode_count = n
         /\ calls["reset"] = n
         /\ calls["increment"] = n
         /\ calls["write"] = n
  /\ ZeroBudget /\ pc \in {"while_run", "returned"} =>
       /\ should_terminate(episode_count, step_count)
       /\ NoCalls
       /\ log = <<>>
       /\ counter = counter0

C20_Witness ==
  /\ pc = "returned"
  /\ num_episodes = Some(MaxBudget)
  /\ calls["reset"] = MaxBudget

C20_ZeroWitness ==
  /\ pc = "returned"
  /\ num_steps = Some(0)

----
\* Properties of the episode structure.

\* The states of the two-level loop: an episode is under way from the
\* return of Environment.reset until the inner loop sees a LAST timestep.
LoopState ==
  CASE pc \in {"observe_first", "while_episode", "select_action", "step",
               "observe", "update", "bookkeeping"} -> "IN_EPISODE"
    [] pc = "returned" -> "TERMINATED"
    [] pc = "raised" -> "FAILED"
    [] OTHER -> "AWAITING_RESET"

ResetCalled == calls'["reset"] = calls["reset"] + 1
StepCalled  == calls'["step"] = calls["step"] + 1

\* C16: Environment.reset is called only at the start of the run or when
\* the timestep in hand is LAST and every earlier episode has been counted
\* and logged; Environment.step is never called with a LAST timestep in
\* hand; the loop enters an episode only by a reset and leaves it, other
\* than by a failure, only on seeing a LAST timestep.
C16_EpisodesWhole ==
  [][ /\ ResetCalled =>
           \/ NoCalls /\ episode_count = 0
           \/ /\ last(timestep)
              /\ calls["increment"] = calls["reset"]
              /\ calls["write"] = calls["reset"]
              /\ lasts = calls["reset"]
      /\ StepCalled => timestep.step_type \in {"FIRST", "MID"}
      /\ LoopState = "AWAITING_RESET" /\ LoopState' = "IN_EPISODE" =>
           ResetCalled /\ timestep'.step_type = "FIRST"
      /\ LoopState = "IN_EPISODE"
           /\ LoopState' \in {"AWAITING_RESET", "TERMINATED"} =>
           last(timestep)
      /\ LoopState = "AWAITING_RESET" /\ LoopState' = "TERMINATED" =>
           (calls["reset"] > 0 => last(timestep))
      /\ LoopState \in {"TERMINATED", "FAILED"} => LoopState' = LoopState
    ]_vars

C16_Witness ==
  /\ pc = "observe_first"
  /\ calls["reset"] = 2
  /\ calls["write"] = 1
  /\ lasts = 1

----
\* Properties of the logged episode_length and episode_return.

\* Logger.write has just returned: the last record is the one of the
\* episode the Environment has just ended.
JustLogged == pc = "while_run" /\ calls["write"] > 0

\* C17 as stated: for every logged episode, the record's episode_length is
\* the number of Environment.step calls of the episode and its
\* episode_return is the sum of the rewards those calls returned.
C17_LengthAndReturn ==
  JustLogged =>
    /\ log[Len(log)]["episode_length"] = given.steps
    /\ log[Len(log)]["episode_return"] = given.rewards

\* C17 for a Counter with no total named episode_length or episode_return:
\* the record's episode_length is the number of Environment.step calls of
\* the episode and its episode_return the sum of the rewards those calls
\* returned, the FIRST timestep's reward left out and the LAST one's counted;
\* whatever the Counter holds, the two accumulators are zero at each reset
\* and at each test of the inner loop equal the steps and rewards so far.
C17_LengthAndReturnUnlessShadowed ==
  /\ JustLogged =>
       /\ episode_steps = given.steps
       /\ episode_return = given.rewards
       /\ "episode_length" \notin DOMAIN counts =>
            log[Len(log)]["episode_length"] = given.steps
       /\ "episode_return" \notin DOMAIN counts =>
            log[Len(log)]["episode_return"] = given.rewards
  /\ pc \in {"reset", "observe_first"} =>
       episode_steps = 0 /\ episode_return = 0
  /\ pc = "while_episode" =>
       /\ episode_steps = given.steps
       /\ episode_return = given.rewards

C17_Witness ==
  /\ JustLogged
  /\ calls["write"] = 2
  /\ "episode_length" \notin DOMAIN counts
  /\ log[2]["episode_length"] = 2
  /\ log[2]["episode_return"] = 1
  /\ log[1]["episode_return"] = 1

----
\* Properties of a step that returns no reward.

\* Environment.step returned a timestep without a reward and the loop has
\* done its book-keeping for it.
NoneRewardHandled ==
  /\ timestep.step_type \in {"MID", "LAST"}
  /\ timestep.reward = None
  /\ pc \notin {"observe", "update", "bookkeeping"}
  /\ error \notin {"observe", "update"}

\* C18 as stated: a timestep without a reward returned by Environment.step
\* in the middle of an episode counts as a reward of zero: the episode goes
\* on with the step counted and the return unchanged, and no error is raised.
C18_NoneRewardAsZero ==
  NoneRewardHandled /\ timestep.step_type = "MID" =>
    /\ error # "TypeError"
    /\ episode_steps = given.steps
    /\ episode_return = given.rewards

\* C18, amended: a timestep without a reward returned by Environment.step
\* makes the book-keeping of that step raise TypeError, which leaves run
\* after Actor.observe and Actor.update have seen the timestep; the step has
\* been added to episode_steps, episode_return is unchanged by it, and the
\* episode is neither counted nor logged.
C18_NoneRewardRaises ==
  /\ NoneRewardHandled =>
       /\ pc = "raised"
       /\ error = "TypeError"
  /\ error = "TypeError" =>
       /\ NoneRewardHandled
       /\ ~ENABLED Next
       /\ episode_steps = given.steps
       /\ episode_return = given.rewards
       /\ calls["observe"] = calls["step"]
       /\ calls["update"] = calls["step"]
       /\ calls["increment"] = calls["reset"] - 1
       /\ calls["write"] = calls["reset"] - 1
       /\ Len(log) = calls["write"]

C18_Witness ==
  /\ error = "TypeError"
  /\ timestep.step_type = "MID"
  /\ calls["reset"] = 2
  /\ episode_steps = 1

----
\* Properties of the order of the collaborator calls.

\* This step makes a call to operation op.
CallMade(op) == calls'[op] = calls[op] + 1

\* C15: the Environment and Actor calls of an episode follow one another in
\* a fixed order: Environment.reset comes first; Actor.observe_first follows
\* it with the timestep reset returned; Actor.select_action follows
\* observe_first or Actor.update, on the observation of the timestep the
\* Environment returned last, and only if that timestep is not LAST;
\* Environment.step follows select_action with the action selected;
\* Actor.observe follows step with that action and the timestep step
\* returned; Actor.update follows observe; and the episode is over only
\* after an update, with a LAST timestep in hand.
C15_CallOrder ==
  /\ [][ /\ CallMade("reset") =>
              /\ last_call'.op = "reset"
              /\ \/ last_call.op = "none"
                 \/ last_call.op = "update" /\ last(given.timestep)
         /\ CallMade("observe_first") =>
              /\ last_call'.op = "observe_first"
              /\ last_call.op = "reset"
              /\ last_call'.timestep = last_call.timestep
              /\ last_call.timestep.step_type = "FIRST"
         /\ CallMade("select_action") =>
              /\ last_call'.op = "select_action"
              /\ last_call.op \in {"observe_first", "update"}
              /\ last_call'.observation = given.timestep.observation
              /\ given.timestep.step_type \in {"FIRST", "MID"}
         /\ CallMade("step") =>
              /\ last_call'.op = "step"
              /\ last_call.op = "select_action"
              /\ last_call'.action = last_call.action
              /\ last_call.action # NoAction
         /\ CallMade("observe") =>
              /\ last_call'.op = "observe"
              /\ last_call.op = "step"
              /\ last_call'.action = last_call.action
              /\ last_call'.timestep = last_call.timestep
              /\ last_call.timestep # NoTimestep
         /\ CallMade("update") =>
              /\ last_call'.op = "update"
              /\ last_call.op = "observe"
         /\ last_call' # last_call => CallMade(last_call'.op)
       ]_vars
  /\ [](pc = "increment" =>
          /\ last_call.op = "update"
          /\ last(given.timestep)
          /\ given.timestep = timestep
          /\ given.steps >= 1)

C15_Witness ==
  /\ pc = "update"
  /\ last_call.op = "observe"
  /\ last_call.action = "a2"
  /\ last_call.timestep.observation = "o2"
  /\ last_call.timestep.step_type = "LAST"
  /\ given.steps = 2
  /\ calls["reset"] = 2

----
\* Properties of an Environment that never ends an episode.

\* run(num_steps=5) on a loop with a fresh Counter and an Environment that
\* never returns a LAST timestep.
EndlessRun ==
  /\ environment.kind = "endless"
  /\ FreshCounter
  /\ num_steps = Some(5)
  /\ pc # "idle"

\* C12: with an Environment that never returns a LAST timestep,
\* run(num_steps=5) never returns: the one episode it starts is never left
\* for the budget test, the inner loop goes on at every test whatever the
\* number of steps taken, and Counter.increment and Logger.write are never
\* called.
C12_EndlessNeverReturns ==
  EndlessRun =>
    /\ pc # "returned"
    /\ pc \notin {"increment", "collect", "write"}
    /\ calls["increment"] = 0
    /\ calls["write"] = 0
    /\ log = <<>>
    /\ counter = counter0
    /\ calls["reset"] <= 1
    /\ episode_count = 0 /\ step_count = 0
    /\ pc = "while_episode" => ~last(timestep) /\ ENABLED WhileEpisode
    /\ pc = "raised" =>
         error \in {"reset", "observe_first", "select_action", "step",
                    "observe", "update", "TypeError"}

C12_Witness ==
  /\ EndlessRun
  /\ pc = "while_episode"
  /\ episode_steps = 6

----
\* Properties of successive calls of run on one loop.

\* The calls the present call of run has made to operation op.
ThisCall(op) == calls[op] - earlier.calls[op]

\* C13: episode_count and step_count count the episodes and steps of the
\* present call of run only, so run(num_episodes=n) returns after exactly n
\* episodes of its own and run(num_steps=n) after at least n steps of its
\* own, whatever the earlier calls did and whatever the Counter holds, while
\* the Counter's totals hold the episodes and steps of all the calls.
C13_RunStatePerCall ==
  /\ pc = "while_run" =>
       /\ episode_count = ThisCall("reset")
       /\ episode_count = ThisCall("write")
       /\ step_count = ThisCall("step")
  /\ pc = "returned" =>
       /\ \A n \in num_episodes :
            /\ episode_count = n
            /\ ThisCall("reset") = n
            /\ ThisCall("increment") = n
            /\ ThisCall("write") = n
       /\ \A n \in num_steps :
            /\ step_count >= n
            /\ step_count = ThisCall("step")
       /\ ThisCall("step") = ThisCall("reset") * Len(environment.script)
  /\ pc \in {"while_run", "returned"} =>
       /\ Get(counter, "episodes") = Get(counter0, "episodes") + calls["reset"]
       /\ Get(counter, "steps") = Get(counter0, "steps") + calls["step"]

C13_Witness ==
  /\ pc = "returned"
  /\ earlier.runs = 1
  /\ earlier.calls["reset"] = 2
  /\ num_episodes = Some(2)
  /\ ThisCall("reset") = 2
  /\ Get(counter, "episodes") = 5

----
\* Properties of a deterministic Environment and Actor.

RECURSIVE ScriptReturn(_)
ScriptReturn(script) ==
  IF script = <<>> THEN 0
  ELSE (CHOOSE r \in Head(script).reward : TRUE) + ScriptReturn(Tail(script))

\* The value a record holds under key k when the loop computed v for it.
Logged(k, v) == IF k \in DOMAIN counter0 THEN counter0[k] ELSE v

\* The inner loop of an episode has ended.
EpisodeOver == pc \in {"increment", "collect", "write"}

\* C14: with a deterministic Environment and Actor the episode_length and
\* episode_return of an episode are determined by the collaborators alone:
\* every episode, in whichever call of run and whatever the clock reads,
\* ends with the same episode_steps and episode_return, and any two records
\* agree on episode_length and episode_return.
C14_SameLengthAndReturn ==
  environment.kind = "scripted" =>
    /\ EpisodeOver =>
         /\ episode_steps = Len(environment.script)
         /\ episode_return = ScriptReturn(environment.script)
    /\ \A i \in 1..Len(log) :
         /\ log[i]["episode_length"]
              = Logged("episode_length", Len(environment.script))
         /\ log[i]["episode_return"]
              = Logged("episode_return", ScriptReturn(environment.script))
    /\ \A i, j \in 1..Len(log) :
         /\ log[i]["episode_length"] = log[j]["episode_length"]
         /\ log[i]["episode_return"] = log[j]["episode_return"]

C14_Witness ==
  /\ environment.kind = "scripted"
  /\ FreshCounter
  /\ pc = "returned"
  /\ earlier.runs = 1
  /\ earlier.calls["reset"] = 1
  /\ num_episodes = Some(1)
  /\ Len(log) = 2
  /\ log[1]["episode_length"] = 2
  /\ log[2]["episode_return"] = 1

----
\* Properties of a Counter shared by several loops.

\* The steps of the episodes this loop has had counted.
OwnCountedSteps ==
  IF pc = "collect" \/ error = "ZeroDivisionError"
    THEN step_count + episode_steps
    ELSE step_count

\* C11: with a Counter whose increment is atomic and which other loops
\* increment at any moment, the episodes total is the number of episodes
\* counted by all the loops and the steps total the sum of their lengths;
\* the totals a loop receives hold its own episode just counted and all it
\* had counted before, and the totals it logs grow from record to record by
\* at least its own episode.
C11_SharedTotalsConsistent ==
  /\ Get(counter, "episodes")
       = Get(counter0, "episodes") + calls["increment"] + peers.episodes
  /\ Get(counter, "steps")
       = Get(counter0, "steps") + OwnCountedSteps + peers.steps
  /\ calls["increment"] > 0 =>
       /\ Get(counts, "episodes")
            >= Get(counter0, "episodes") + calls["increment"]
       /\ Get(counts, "steps") >= Get(counter0, "steps") + OwnCountedSteps
       /\ Get(counts, "episodes") <= Get(counter, "episodes")
       /\ Get(counts, "steps") <= Get(counter, "steps")
  /\ \A i \in 1..Len(log) :
       /\ log[i]["episodes"] >= Get(counter0, "episodes") + i
       /\ log[i]["steps"]
            >= Get(counter0, "steps") + log[i]["episode_length"]
       /\ i > 1 =>
            /\ log[i]["episodes"] >= log[i - 1]["episodes"] + 1
            /\ log[i]["steps"]
                 >= log[i - 1]["steps"] + log[i]["episode_length"]

C11_Witness ==
  /\ Len(log) = 2
  /\ peers.episodes = 2
  /\ log[1]["episodes"] = Get(counter0, "episodes") + 2
  /\ log[2]["episodes"] = Get(counter0, "episodes") + 4
  /\ log[2]["steps"] = Get(counter0, "steps") + 6

====
